---- MODULE Spec2Model ----
(***************************************************************************)
(* Model of OrganizationSdkUpdates.get                                     *)
(* (src/src/sentry/api/endpoints/organization_sdk_updates.py).             *)
(*                                                                         *)
(* Strings are sequences of one-character strings, so that str.split,     *)
(* int() and Python's lexicographic comparison of str and list values are *)
(* computed rather than assumed.  A row of result["data"] is a record; the *)
(* keys "project.id", "sdk.name", "sdk.version" and "last_seen" are the    *)
(* fields project_id, sdk_name, sdk_version and last_seen, and a key the   *)
(* row does not hold is a field the record does not have.  The variable    *)
(* calls records, per project, the arguments of the get_suggested_updates  *)
(* calls made so far; the other variables are the locals of get.           *)
(***************************************************************************)
EXTENDS Integers, Sequences, FiniteSets, TLC

VARIABLES projects, data, pc, error, sdks_by_project, index_state, calls,
          project_upgrade_suggestions

vars ==
  <<projects, data, pc, error, sdks_by_project, index_state, calls,
    project_upgrade_suggestions>>

(***************************************************************************)
(* Bounds and input domains                                                *)
(***************************************************************************)
\* Longest query result that is enumerated.
MaxObs == 3

ProjectIds == {1, 2}

Py == <<"p", "y">>
Js == <<"j", "s">>
SdkNames == {Py, Js}

V_1_2 == <<"1", ".", "2">>
V_1_02 == <<"1", ".", "0", "2">>
V_1_2_0 == <<"1", ".", "2", ".", "0">>
V_1_10 == <<"1", ".", "1", "0">>
V_1_x == <<"1", ".", "x">>

\* Versions reported by the ordered backend of Spec.
Versions == {V_1_2, V_1_2_0, V_1_10, V_1_x}
\* Versions of the arbitrary inputs of SpecAnyInput.
AnyVersions == {V_1_2, V_1_02, V_1_10}

\* last_seen() values of the ordered backend (the endpoint never reads them)
\* and of the arbitrary inputs.
LastSeen == {1}
Timestamps == {1, 2}

\* The characters in use, in ascending code point order.
Alphabet == <<".", "0", "1", "2", "j", "p", "s", "x", "y">>

Digits == {"0", "1", "2"}

(***************************************************************************)
(* Python built-ins                                                        *)
(***************************************************************************)
\* ord(c): position in the code point order.
Ord(c) == CHOOSE i \in 1..Len(Alphabet) : Alphabet[i] = c

DigitValue(c) == CASE c = "0" -> 0 [] c = "1" -> 1 [] c = "2" -> 2

\* Comparison of two lists of integers (and, through Ord, of two str values):
\* the first differing element decides, and a proper prefix is smaller.
RECURSIVE ListLess(_, _)
ListLess(a, b) ==
  IF b = <<>> THEN FALSE
  ELSE IF a = <<>> THEN TRUE
  ELSE IF Head(a) # Head(b) THEN Head(a) < Head(b)
  ELSE ListLess(Tail(a), Tail(b))

\* s.split("."): the segments between the dots; "" where two dots meet or the
\* string begins or ends with a dot.
RECURSIVE Split(_)
Split(s) ==
  IF \A i \in 1..Len(s) : s[i] # "." THEN <<s>>
  ELSE LET d == CHOOSE i \in 1..Len(s) :
                  s[i] = "." /\ \A j \in 1..(i - 1) : s[j] # "."
       IN <<SubSeq(s, 1, d - 1)>> \o Split(SubSeq(s, d + 1, Len(s)))

\* int(u) succeeds on a nonempty run of decimal digits (signs, blanks and
\* underscores, which int() also accepts, are outside Alphabet).
IntOk(u) == u # <<>> /\ \A i \in 1..Len(u) : u[i] \in Digits

RECURSIVE IntOf(_)
IntOf(u) ==
  IF u = <<>> THEN 0
  ELSE 10 * IntOf(SubSeq(u, 1, Len(u) - 1)) + DigitValue(u[Len(u)])

\* sorted(items, key=...): stable; keys[i] is the key of items[i].
RECURSIVE Insert(_, _)
Insert(sorted, e) ==
  IF sorted = <<>> THEN <<e>>
  ELSE LET last == sorted[Len(sorted)]
       IN IF ListLess(e.key, last.key)
          THEN Insert(SubSeq(sorted, 1, Len(sorted) - 1), e) \o <<last>>
          ELSE sorted \o <<e>>

RECURSIVE SortKeyed(_)
SortKeyed(pairs) ==
  IF pairs = <<>> THEN <<>>
  ELSE Insert(SortKeyed(SubSeq(pairs, 1, Len(pairs) - 1)), pairs[Len(pairs)])

Sorted(items, keys) ==
  LET pairs == [i \in 1..Len(items) |-> [key |-> keys[i], item |-> items[i]]]
      s == SortKeyed(pairs)
  IN [i \in 1..Len(s) |-> s[i].item]

\* itertools.groupby(items, key=...): the maximal runs of consecutive items
\* with equal keys, in order.
RECURSIVE GroupBy(_, _)
GroupBy(items, keys) ==
  IF items = <<>> THEN <<>>
  ELSE LET n == CHOOSE k \in 1..Len(items) :
                  /\ \A j \in 1..k : keys[j] = keys[1]
                  /\ k < Len(items) => keys[k + 1] # keys[1]
       IN <<[key |-> keys[1], group |-> SubSeq(items, 1, n)]>>
          \o GroupBy(SubSeq(items, n + 1, Len(items)),
                     SubSeq(keys, n + 1, Len(keys)))

(***************************************************************************)
(* Key functions                                                           *)
(***************************************************************************)
by_sdk_name(sdk) == sdk.sdk_name

by_project_id(sdk) == sdk.project_id

\* The str key by_sdk_name returns, as Python orders it.
NameKey(name) == [i \in 1..Len(name) |-> Ord(name[i])]

\* lambda v: [int(u) for u in v["sdk.version"].split(".")]
VersionKey(v) ==
  LET segs == Split(v.sdk_version) IN [i \in 1..Len(segs) |-> IntOf(segs[i])]

\* The lambda raises KeyError on a row without "sdk.version" and ValueError
\* on a segment int() rejects.
VersionKeyError(v) ==
  IF "sdk_version" \notin DOMAIN v THEN "KeyError"
  ELSE IF \E i \in 1..Len(Split(v.sdk_version)) : ~IntOk(Split(v.sdk_version)[i])
       THEN "ValueError"
       ELSE "None"

(***************************************************************************)
(* Lines 40-59: the latest version of each SDK in use for each project     *)
(***************************************************************************)
\* Variant: the first row of the sorted list is taken instead of the last.
LatestVersion_First(sdks) ==
  LET s == Sorted(sdks, [i \in 1..Len(sdks) |-> VersionKey(sdks[i])]) IN s[1].sdk_version

\* sorted(sdks, key=lambda v: ...).pop()["sdk.version"]
LatestVersion(sdks) ==
  LET s == Sorted(sdks, [i \in 1..Len(sdks) |-> VersionKey(sdks[i])]) IN s[Len(s)].sdk_version

\* Variant: the rows are grouped without being sorted by name.
SortedBySdkName_Unsorted(sdks_used) == sdks_used

\* sorted(sdks_used, key=by_sdk_name)
SortedBySdkName(sdks_used) ==
  Sorted(sdks_used, [i \in 1..Len(sdks_used) |-> NameKey(by_sdk_name(sdks_used[i]))])

\* The inner comprehension: one {"name", "version"} entry for each group of
\* the name-sorted rows of one project run.
LatestSdks(sdks_used) ==
  LET s == SortedBySdkName(sdks_used)
      groups == GroupBy(s, [i \in 1..Len(s) |-> by_sdk_name(s[i])])
  IN [i \in 1..Len(groups) |->
        [name |-> groups[i].key, version |-> LatestVersion(groups[i].group)]]

\* The outer comprehension: one (project_id, entries) pair for each run of
\* consecutive rows of one project.
ProjectPairs(rows) ==
  LET runs == GroupBy(rows, [i \in 1..Len(rows) |-> by_project_id(rows[i])])
  IN [i \in 1..Len(runs) |-> <<runs[i].key, LatestSdks(runs[i].group)>>]

\* dict(pairs): the last pair of a key is the one the dict keeps.
Dict(pairs) ==
  [k \in {pairs[i][1] : i \in 1..Len(pairs)} |->
     pairs[CHOOSE i \in 1..Len(pairs) :
             pairs[i][1] = k /\ \A j \in (i + 1)..Len(pairs) : pairs[j][1] # k][2]]

SdksByProject(rows) == Dict(ProjectPairs(rows))

\* The first exception of the comprehension, "None" when it completes.  The
\* outer groupby reads rows up to the first row of the next project, calling
\* by_project_id on each; sorted() then calls by_sdk_name on every row of the
\* run, and the version lambda runs over the name-sorted rows.
FirstVersionError(sdks) ==
  IF \A i \in 1..Len(sdks) : VersionKeyError(sdks[i]) = "None" THEN "None"
  ELSE VersionKeyError(sdks[CHOOSE i \in 1..Len(sdks) :
                              /\ VersionKeyError(sdks[i]) # "None"
                              /\ \A j \in 1..(i - 1) : VersionKeyError(sdks[j]) = "None"])

RECURSIVE ReduceError(_)
ReduceError(rows) ==
  IF rows = <<>> THEN "None"
  ELSE IF "project_id" \notin DOMAIN rows[1] THEN "KeyError"
  ELSE LET same(i) == /\ "project_id" \in DOMAIN rows[i]
                      /\ rows[i].project_id = rows[1].project_id
           n == CHOOSE k \in 1..Len(rows) :
                  /\ \A j \in 1..k : same(j)
                  /\ k < Len(rows) => ~same(k + 1)
           run == SubSeq(rows, 1, n)
       IN IF n < Len(rows) /\ "project_id" \notin DOMAIN rows[n + 1] THEN "KeyError"
          ELSE IF \E i \in 1..n : "sdk_name" \notin DOMAIN run[i] THEN "KeyError"
          ELSE IF FirstVersionError(SortedBySdkName(run)) # "None"
               THEN FirstVersionError(SortedBySdkName(run))
               ELSE ReduceError(SubSeq(rows, n + 1, Len(rows)))

(***************************************************************************)
(* sentry.sdk_updates: the suggestion engine and the index, after sections *)
(* 4.1 and 4.3 of the specification                                        *)
(***************************************************************************)
\* No version: the index does not know the SDK.
Absent == <<>>

\* parse(raw): the integer components when every segment is a run of digits,
\* else the degraded form that keeps the raw string.
Parse(raw) ==
  LET segs == Split(raw)
  IN IF \A i \in 1..Len(segs) : IntOk(segs[i])
     THEN [exact |-> TRUE, components |-> [i \in 1..Len(segs) |-> IntOf(segs[i])]]
     ELSE [exact |-> FALSE, components |-> [i \in 1..Len(raw) |-> Ord(raw[i])]]

\* Component-wise comparison after padding the shorter sequence with zeros.
Padded(a, n) == [i \in 1..n |-> IF i <= Len(a) THEN a[i] ELSE 0]

PaddedLess(a, b) ==
  LET n == IF Len(a) < Len(b) THEN Len(b) ELSE Len(a)
  IN ListLess(Padded(a, n), Padded(b, n))

\* The total order of ParsedVersion: degraded below exact, degraded among
\* themselves by their raw string.
ParsedLess(p, q) ==
  IF p.exact /\ q.exact THEN PaddedLess(p.components, q.components)
  ELSE IF ~p.exact /\ ~q.exact THEN ListLess(p.components, q.components)
  ELSE ~p.exact

\* The indexes a request may load: per SDK name the latest known version or
\* Absent, the deprecated (name, version) pairs, and the version a deprecated
\* one is replaced by.
IndexLatest == {Absent, <<1, 2>>, <<1, 10>>}

IndexStates ==
  [latest : [SdkNames -> IndexLatest],
   deprecated : {{}, {<<Py, V_1_10>>}},
   next : {<<2, 0>>}]

NoIndex == [latest |-> <<>>, deprecated |-> {}, next |-> <<>>]

latest_known_version(index, sdk_name) ==
  IF sdk_name \in DOMAIN index.latest THEN index.latest[sdk_name] ELSE Absent

deprecated(index, sdk_name, version) == <<sdk_name, version>> \in index.deprecated

\* get_suggested_updates(setup_state, index_state): the reference policy.
get_suggested_updates(setup, index) ==
  LET latest == latest_known_version(index, setup.sdk_name)
  IN IF latest = Absent THEN <<>>
     ELSE IF ParsedLess(Parse(setup.sdk_version), [exact |-> TRUE, components |-> latest])
     THEN <<[sdk_name |-> setup.sdk_name, suggestion_kind |-> "update-sdk",
             target_version |-> latest]>>
     ELSE IF deprecated(index, setup.sdk_name, setup.sdk_version)
     THEN <<[sdk_name |-> setup.sdk_name, suggestion_kind |-> "update-sdk",
             target_version |-> index.next]>>
     ELSE <<>>

(***************************************************************************)
(* The request                                                             *)
(***************************************************************************)
Fields == {"project_id", "sdk_name", "sdk_version", "last_seen"}

SeqUpTo(S, n) == UNION {[1..k -> S] : k \in 0..n}

\* The rows discover.query returns for the requested projects.
Rows(projs) ==
  [project_id : projs, sdk_name : SdkNames, sdk_version : Versions,
   last_seen : LastSeen]

\* orderby="-project": descending by project.
OrderedByProject(rows) ==
  \A i \in 1..Len(rows) : \A j \in i..Len(rows) :
    rows[i].project_id >= rows[j].project_id

\* Rows of any project, and rows that miss one of the four keys.
Without(row, f) == [g \in DOMAIN row \ {f} |-> row[g]]

AnyRows ==
  [project_id : ProjectIds, sdk_name : {Py}, sdk_version : AnyVersions,
   last_seen : Timestamps]
  \cup {Without([project_id |-> 1, sdk_name |-> Py, sdk_version |-> V_1_2,
                 last_seen |-> 1], f) : f \in Fields}

EmptyDict == [k \in {} |-> <<>>]

Start ==
  /\ pc = "reduce"
  /\ error = "None"
  /\ sdks_by_project = EmptyDict
  /\ index_state = NoIndex
  /\ calls = EmptyDict
  /\ project_upgrade_suggestions = EmptyDict

\* Lines 24-38: the requested projects and the query result, ordered and
\* filtered as the query asks.
Init ==
  /\ projects \in SUBSET ProjectIds
  /\ data \in {rows \in SeqUpTo(Rows(projects), MaxObs) : OrderedByProject(rows)}
  /\ Start

\* The comprehension of lines 42-59 applied to any sequence of rows.
InitAnyInput ==
  /\ projects = ProjectIds
  /\ data \in SeqUpTo(AnyRows, MaxObs)
  /\ Start

\* Lines 42-59.
Reduce ==
  /\ pc = "reduce"
  /\ IF ReduceError(data) = "None"
     THEN /\ sdks_by_project' = SdksByProject(data)
          /\ pc' = "index"
          /\ error' = error
     ELSE /\ sdks_by_project' = sdks_by_project
          /\ pc' = "raised"
          /\ error' = ReduceError(data)
  /\ UNCHANGED <<projects, data, index_state, calls, project_upgrade_suggestions>>

\* Line 62: index_state = SdkIndexState()
LoadIndex ==
  /\ pc = "index"
  /\ index_state' \in IndexStates
  /\ pc' = "suggest"
  /\ UNCHANGED <<projects, data, error, sdks_by_project, calls, project_upgrade_suggestions>>

\* Variant: the name and the version are passed in each other's place.
SdkSetupState_Swapped(sdk) == [sdk_name |-> sdk.version, sdk_version |-> sdk.name]

\* SdkSetupState(sdk["name"], sdk["version"], (), ())
SdkSetupState(sdk) == [sdk_name |-> sdk.name, sdk_version |-> sdk.version]

\* sdks_by_project.get(project.id, [])
SdksOf(p) == IF p \in DOMAIN sdks_by_project THEN sdks_by_project[p] ELSE <<>>

\* Variant: only the projects that have events are given a key.
ProjectsToSuggest_Observed == projects \cap DOMAIN sdks_by_project

\* for project in projects
ProjectsToSuggest == projects

\* Lines 64-69 for one project: the engine is called on each entry in turn.
\* A lookup of the index may fail with IndexUnavailableError (failAt is the
\* entry whose lookup fails, 0 when none does); nothing catches it.
SuggestProject(p) ==
  /\ pc = "suggest"
  /\ p \in ProjectsToSuggest \ DOMAIN project_upgrade_suggestions
  /\ \E failAt \in 0..Len(SdksOf(p)) :
       LET setups == [i \in 1..Len(SdksOf(p)) |-> SdkSetupState(SdksOf(p)[i])]
       IN IF failAt = 0
          THEN /\ project_upgrade_suggestions' =
                    (p :> [i \in 1..Len(setups) |->
                             get_suggested_updates(setups[i], index_state)])
                    @@ project_upgrade_suggestions
               /\ calls' = (p :> setups) @@ calls
               /\ pc' = pc
               /\ error' = error
          ELSE /\ project_upgrade_suggestions' = project_upgrade_suggestions
               /\ calls' = (p :> SubSeq(setups, 1, failAt)) @@ calls
               /\ pc' = "raised"
               /\ error' = "IndexUnavailableError"
  /\ UNCHANGED <<projects, data, sdks_by_project, index_state>>

\* Line 73: return Response(project_upgrade_suggestions)
Return ==
  /\ pc = "suggest"
  /\ ProjectsToSuggest \ DOMAIN project_upgrade_suggestions = {}
  /\ pc' = "done"
  /\ UNCHANGED <<projects, data, error, sdks_by_project, index_state, calls,
                 project_upgrade_suggestions>>

Next ==
  \/ Reduce
  \/ LoadIndex
  \/ \E p \in ProjectIds : SuggestProject(p)
  \/ Return

Spec == Init /\ [][Next]_vars

SpecAnyInput == InitAnyInput /\ [][Next]_vars

(***************************************************************************)
(* Vocabulary of the properties                                            *)
(***************************************************************************)
Complete(row) == DOMAIN row = Fields

\* The comprehension of lines 42-59 has completed and line 62 is next.
Reduced == pc = "index"

\* The rows of one (project, sdk name) pair, in input order.
ObsOf(p, n) ==
  SelectSeq(data, LAMBDA r : /\ "project_id" \in DOMAIN r /\ r.project_id = p
                             /\ "sdk_name" \in DOMAIN r /\ r.sdk_name = n)

\* The rows of one project lie next to each other.
Adjacent(rows) ==
  \A i \in 1..Len(rows) : \A j \in i..Len(rows) : \A k \in i..j :
    rows[i].project_id = rows[j].project_id => rows[k].project_id = rows[i].project_id

Components(raw) == Parse(raw).components

\* The rows of obs whose version no row of obs exceeds in the padded order.
MaximalIn(obs) ==
  {i \in 1..Len(obs) :
     \A j \in 1..Len(obs) :
       ~PaddedLess(Components(obs[i].sdk_version), Components(obs[j].sdk_version))}

EntriesNamed(p, n) ==
  {i \in 1..Len(SdksOf(p)) : SdksOf(p)[i].name = n}

Max(S) == CHOOSE x \in S : \A y \in S : y <= x
Min(S) == CHOOSE x \in S : \A y \in S : x <= y

(***************************************************************************)
(* Properties                                                              *)
(***************************************************************************)
\* C1: the returned mapping has a key for every project of `projects`, and a
\* project without any observation is mapped to the empty sequence.
C1_EveryProjectIsAKey ==
  pc = "done" =>
    /\ DOMAIN project_upgrade_suggestions = projects
    /\ \A p \in projects :
         (\A i \in 1..Len(data) : data[i].project_id # p) => project_upgrade_suggestions[p] = <<>>

C1_Witness ==
  /\ pc = "done"
  /\ data # <<>>
  /\ \E p \in projects :
       /\ \A i \in 1..Len(data) : data[i].project_id # p
       /\ project_upgrade_suggestions[p] = <<>>

C3_TieBreakByLastSeenThenFirst ==
  (Reduced /\ (\A i \in 1..Len(data) : Complete(data[i])) /\ Adjacent(data)) =>
    \A p \in ProjectIds : \A n \in SdkNames :
      LET obs == ObsOf(p, n)
          newest == {i \in MaximalIn(obs) :
                       \A j \in MaximalIn(obs) : obs[j].last_seen <= obs[i].last_seen}
      IN obs # <<>> =>
           \A e \in EntriesNamed(p, n) :
             SdksOf(p)[e].version = obs[Min(newest)].sdk_version

\* C4: the reducer orders versions by their zero-padded components, so that
\* of versions that differ in trailing zeros only neither outranks the other:
\* the sort leaves them in input order and the last of them is taken.
C4_PaddedOrderDecides ==
  Reduced =>
    \A p \in ProjectIds : \A n \in SdkNames :
      LET obs == ObsOf(p, n)
      IN obs # <<>> =>
           \A e \in EntriesNamed(p, n) :
             SdksOf(p)[e].version = obs[Max(MaximalIn(obs))].sdk_version

\* C5: a version with a non-numeric or empty segment does not make the
\* request fail.
C5_MalformedVersionDoesNotFail ==
  (\E i \in 1..Len(data) : ~Parse(data[i].sdk_version).exact) => error # "ValueError"

\* C6: rows that miss a required field are dropped without failing the
\* request, and the other rows are reduced as if the dropped ones were absent.
C6_IncompleteRowsAreDropped ==
  (\E i \in 1..Len(data) : ~Complete(data[i])) =>
    /\ error # "KeyError"
    /\ Reduced => sdks_by_project = SdksByProject(SelectSeq(data, Complete))

\* C7: a failed index lookup of one SDK does not fail the request.
C7_IndexFailureIsNotFatal == error # "IndexUnavailableError"

C10_AscendingNamesOneCallEach ==
  pc = "done" =>
    \A p \in projects :
      /\ \A i \in 1..Len(calls[p]) : \A j \in (i + 1)..Len(calls[p]) :
           ListLess(NameKey(calls[p][i].sdk_name), NameKey(calls[p][j].sdk_name))
      /\ Len(calls[p]) = Cardinality({n \in SdkNames : ObsOf(p, n) # <<>>})
      /\ \A n \in SdkNames :
           ObsOf(p, n) # <<>> => \E i \in 1..Len(calls[p]) : calls[p][i].sdk_name = n
      /\ Len(project_upgrade_suggestions[p]) = Len(calls[p])
      /\ \A i \in 1..Len(calls[p]) :
           project_upgrade_suggestions[p][i] = get_suggested_updates(calls[p][i], index_state)

C10_Witness ==
  /\ pc = "done"
  /\ \E p \in projects :
       /\ Len(calls[p]) = 2
       /\ \E i \in 1..Len(data) : \E j \in (i + 1)..Len(data) :
            /\ data[i].project_id = p /\ data[i].sdk_name = Py
            /\ data[j].project_id = p /\ data[j].sdk_name = Js

====
